---- MODULE Spec2Model ----
\* A model of libtw2's net::Net (net/src/net.rs): the peer registry, the
\* routing of inbound datagrams in feed, the outbound operations and the
\* ReceivePacket iterator.  The Connection state machine and the packet codec
\* live in other files of the crate; they are modelled from their contract.
EXTENDS Integers, Sequences, FiniteSets, TLC

VARIABLES
    peers,      \* Net.peers: [peers: the LinearMap as a sequence of entries, next_peer_id]
    out,        \* the datagrams handed to Callback::send by the last call, in order
    ret,        \* the last call and what it returned
    it,         \* the caller's copy of the last returned ReceivePacket, as consumed so far
    yielded,    \* the events the caller has taken from `it`, in order
    created,    \* history: the address given to the call that created each live PeerId
    allocs,     \* history: the number of peers created so far
    dupConnect, \* history: connect was called with an address that had a live peer
    lc,         \* history: how far the calls made so far follow the lifecycle scenario
    cbres       \* history: no Callback::send of the last call returned an error

vars == <<peers, out, ret, it, yielded, created, allocs, dupConnect, lc, cbres>>

\* ------------------------------------------------------------------ bounds

\* Peers a Net creates in one behaviour (by connect or an inbound Connect),
\* those live at the start included.
MaxAllocs == 2

\* ------------------------------------------------------------------ values

\* PeerId(pub u32): the 32-bit value is kept as two 16-bit halves, hi * Half + lo.
Half == 65536

PeerId(h, l) == [hi |-> h, lo |-> l]

\* No PeerId (Option::None); not a u32.
NoPid == [hi |-> -1, lo |-> -1]

Address == {"Client", "Server"}

NoAddr == "-"

\* Byte slices, by content and length.
Bytes(s, n) == [b |-> s, len |-> n]

NoBytes == Bytes("-", 0)

Data == {Bytes("ping", 4)}

Reasons == {Bytes("foobar", 6), Bytes("", 0)}

\* fn get_and_increment(&mut self) -> PeerId: the value before, and the
\* counter after a wrapping_add(1) on 32 bits.
wrapping_add_1(id) ==
    IF id.lo + 1 < Half
    THEN PeerId(id.hi, id.lo + 1)
    ELSE PeerId((id.hi + 1) % Half, 0)

get_and_increment(id) == [old |-> id, self |-> wrapping_add_1(id)]

\* ------------------------------------------------ protocol (packet codec)

\* A datagram on the wire, by the packet it encodes; "Garbage" encodes none.
Datagram(k, d, cs) == [k |-> k, d |-> d, cs |-> cs]

Garbage == Datagram("Garbage", NoBytes, <<>>)

\* enum ChunkType { Connless, Connected, Vital }
ChunkType == {"Connless", "Connected", "Vital"}

\* One chunk of a connected packet: data and the vital flag.
InChunk(d, vital) == [data |-> d, vital |-> vital]

\* The chunk sequences of the connected packets fed: one vital chunk, and a
\* non-vital chunk followed by a vital one.
ChunkSeqs ==
    {<<InChunk(Bytes("ping", 4), TRUE)>>,
     <<InChunk(Bytes("ping", 4), FALSE), InChunk(Bytes("pong", 4), TRUE)>>}

ControlKinds == {"Connect", "ConnectAccept", "Accept"}

\* The datagrams a caller may feed.
Datagrams ==
    {Garbage}
    \cup {Datagram("Connless", d, <<>>) : d \in Data}
    \cup {Datagram(k, NoBytes, <<>>) : k \in ControlKinds}
    \cup {Datagram("Close", r, <<>>) : r \in Reasons}
    \cup {Datagram("Chunks", NoBytes, cs) : cs \in ChunkSeqs}

NoPacket == Datagram("None", NoBytes, <<>>)

\* Packet::read(data, buf) -> Option<Packet>
Packet_read(data) == IF data.k = "Garbage" THEN NoPacket ELSE data

\* Packet::Connless(d)
IsConnless(packet) == packet.k = "Connless"

\* A pattern that accepts every control packet of the handshake.
IsControlConnect_any_control(packet) == packet.k \in ControlKinds

\* Packet::Connected(ConnectedPacket { type_: Control(ControlPacket::Connect), .. })
IsControlConnect(packet) == packet.k = "Connect"

\* The longest data Packet::write accepts in a connless packet.
MAX_PAYLOAD == 1394

\* packet.write(..) of Packet::Connless(data): the datagram, or TooLongData.
Packet_write_connless(data) ==
    IF data.len > MAX_PAYLOAD
    THEN [ok |-> FALSE, d |-> NoPacket]
    ELSE [ok |-> TRUE, d |-> Datagram("Connless", data, <<>>)]

\* ----------------------------------------------------------- connection

\* enum ReceiveChunk { Connless(d), Connected(d, vital), Disconnect(r) }
ReceiveChunk(t, d, v) == [t |-> t, data |-> d, vital |-> v]

\* Connection::new(): a fresh state machine, unconnected.
Connection_new == [state |-> "Unconnected"]

\* What a Connection operation returns to Net: the connection after it, the
\* inner receive iterator, and the datagrams it passes to its send callback.
ConnResult(c, chunks, send) == [conn |-> c, chunks |-> chunks, send |-> send]

\* Connection::connect(cb): begins the client-side handshake.
Connection_connect(conn) ==
    ConnResult([state |-> "Connecting"], <<>>, <<Datagram("Connect", NoBytes, <<>>)>>)

\* Connection::disconnect(cb, reason): emits a disconnect control packet.
Connection_disconnect(conn, reason) ==
    ConnResult([state |-> "Disconnected"], <<>>, <<Datagram("Close", reason, <<>>)>>)

\* Connection::send(cb, data, vital): sends one data chunk.
Connection_send(conn, data, vital) ==
    ConnResult(conn, <<>>,
               <<Datagram("Chunks", NoBytes, <<InChunk(data, vital)>>)>>)

\* Connection::send_connless(cb, data): a connless chunk to this peer.
Connection_send_connless(conn, data) ==
    ConnResult(conn, <<>>, <<Datagram("Connless", data, <<>>)>>)

\* Connection::feed(cb, data, buf): consumes one inbound datagram.
Connection_feed(conn, data) ==
    LET packet == Packet_read(data)
        none == ConnResult(conn, <<>>, <<>>)
    IN  IF conn.state = "Disconnected" \/ packet = NoPacket THEN none
        ELSE IF packet.k = "Connless"
        THEN ConnResult(conn, <<ReceiveChunk("Connless", packet.d, FALSE)>>, <<>>)
        ELSE IF packet.k = "Close"
        THEN ConnResult([state |-> "Disconnected"],
                        <<ReceiveChunk("Disconnect", packet.d, FALSE)>>, <<>>)
        ELSE IF conn.state = "Unconnected" /\ packet.k = "Connect"
        THEN ConnResult([state |-> "Pending"], <<>>,
                        <<Datagram("ConnectAccept", NoBytes, <<>>)>>)
        ELSE IF conn.state = "Connecting" /\ packet.k = "ConnectAccept"
        THEN ConnResult([state |-> "Online"], <<>>,
                        <<Datagram("Accept", NoBytes, <<>>)>>)
        ELSE IF conn.state = "Pending" /\ packet.k = "Accept"
        THEN ConnResult([state |-> "Online"], <<>>, <<>>)
        ELSE IF conn.state \in {"Pending", "Online"} /\ packet.k = "Chunks"
        THEN ConnResult([state |-> "Online"],
                        [i \in 1..Len(packet.cs) |->
                            ReceiveChunk("Connected", packet.cs[i].data, packet.cs[i].vital)],
                        <<>>)
        ELSE none

\* ------------------------------------------------------- peer registry

\* struct Peer { conn, addr };  Peer::new(addr)
Peer_new(addr) == [conn |-> Connection_new, addr |-> addr]

\* One (key, value) pair of the LinearMap<PeerId, Peer<A>>.
Entry(pid, peer) == [key |-> pid, val |-> peer]

\* Peers::new(): an empty map, next_peer_id = PeerId(0).
Peers_new == [peers |-> <<>>, next_peer_id |-> PeerId(0, 0)]

\* The PeerIds that have an entry.
LivePids(self) == {self.peers[i].key : i \in 1..Len(self.peers)}

\* The addresses that have an entry.
LiveAddrs(self) == {self.peers[i].val.addr : i \in 1..Len(self.peers)}

\* LinearMap lookup: the position of the entry with key pid, 0 when absent.
position(self, pid) ==
    IF \E i \in 1..Len(self.peers) : self.peers[i].key = pid
    THEN CHOOSE i \in 1..Len(self.peers) :
            /\ self.peers[i].key = pid
            /\ \A j \in 1..(i - 1) : self.peers[j].key # pid
    ELSE 0

\* Peers::get(pid) -> Option<&Peer>, as "is Some".
get_is_some(self, pid) == position(self, pid) # 0

\* Peers[pid] (Index / IndexMut), used after get_is_some.
index(self, pid) == self.peers[position(self, pid)].val

\* The entry's connection replaced through the &mut Peer.
with_conn(self, pid, conn) ==
    [self EXCEPT !.peers[position(self, pid)].val.conn = conn]

\* An allocation that takes the counter's value without looking for a vacancy.
new_peer_no_probe(self, addr) ==
    LET g == get_and_increment(self.next_peer_id)
    IN  [pid |-> g.old,
         self |-> [self EXCEPT !.next_peer_id = g.self,
                               !.peers = Append(@, Entry(g.old, Peer_new(addr)))]]

\* Peers::new_peer(addr): probe the wrapping counter for a vacant PeerId and
\* insert a fresh Peer there (the LinearMap appends).
RECURSIVE new_peer(_, _)
new_peer(self, addr) ==
    LET g == get_and_increment(self.next_peer_id)
        self1 == [self EXCEPT !.next_peer_id = g.self]
    IN  IF ~get_is_some(self1, g.old)
        THEN [pid |-> g.old,
              self |-> [self1 EXCEPT !.peers = Append(@, Entry(g.old, Peer_new(addr)))]]
        ELSE new_peer(self1, addr)

\* A removal that moves the last entry's value into the hole but keeps the key.
remove_peer_keeps_key(self, pid) ==
    LET i == position(self, pid)
        n == Len(self.peers)
    IN  IF i = 0
        THEN [panic |-> TRUE, self |-> self]
        ELSE [panic |-> FALSE,
              self |-> [self EXCEPT !.peers =
                          [j \in 1..(n - 1) |->
                              IF j = i THEN Entry(pid, self.peers[n].val) ELSE self.peers[j]]]]

\* Peers::remove_peer(pid): LinearMap::remove swaps the last entry into the
\* hole; an absent pid panics ("invalid pid").
remove_peer(self, pid) ==
    LET i == position(self, pid)
        n == Len(self.peers)
    IN  IF i = 0
        THEN [panic |-> TRUE, self |-> self]
        ELSE [panic |-> FALSE,
              self |-> [self EXCEPT !.peers =
                          [j \in 1..(n - 1) |-> IF j = i THEN self.peers[n] ELSE self.peers[j]]]]

\* A scan that starts one entry too late.
pid_from_addr_off_by_one(self, addr) ==
    IF \E i \in 2..Len(self.peers) : self.peers[i].val.addr = addr
    THEN LET i == CHOOSE i \in 2..Len(self.peers) :
                    /\ self.peers[i].val.addr = addr
                    /\ \A j \in 2..(i - 1) : self.peers[j].val.addr # addr
         IN  self.peers[i].key
    ELSE NoPid

\* A lookup that never finds the address.
pid_from_addr_none(self, addr) == NoPid

\* Peers::pid_from_addr(addr): the first entry, in map order, with that address.
pid_from_addr(self, addr) ==
    IF \E i \in 1..Len(self.peers) : self.peers[i].val.addr = addr
    THEN LET i == CHOOSE i \in 1..Len(self.peers) :
                    /\ self.peers[i].val.addr = addr
                    /\ \A j \in 1..(i - 1) : self.peers[j].val.addr # addr
         IN  self.peers[i].key
    ELSE NoPid

\* -------------------------------------------------------- events

\* enum ChunkAddress { NonPeerConnless(A), Peer(PeerId, ChunkType) }
NonPeerConnless(a) == [k |-> "NonPeerConnless", a |-> a]

PeerChunk(pid, type_) == [k |-> "Peer", pid |-> pid, type_ |-> type_]

\* enum ChunkOrEvent { Chunk(Chunk), Connect(PeerId), Disconnect(PeerId, reason) }
Chunk(data, addr) == [t |-> "Chunk", data |-> data, addr |-> addr]

Connect_event(pid) == [t |-> "Connect", pid |-> pid]

Disconnect_event(pid, reason) == [t |-> "Disconnect", pid |-> pid, reason |-> reason]

\* ------------------------------------------------- ReceivePacket iterator

\* struct ReceivePacket { type_ }: the variant, its PeerId or address, and
\* what its inner iterator (iter::Once or connection::ReceivePacket) still holds.
ReceivePacket(type_, pid, addr, inner) ==
    [type_ |-> type_, pid |-> pid, addr |-> addr, inner |-> inner]

ReceivePacket_none == ReceivePacket("None", NoPid, NoAddr, <<>>)

\* A Connect variant whose Once has already been taken.
ReceivePacket_connect_spent(pid) == ReceivePacket("Connect", pid, NoAddr, <<>>)

ReceivePacket_connect(pid) == ReceivePacket("Connect", pid, NoAddr, <<pid>>)

\* A Connless variant that loses the source address.
ReceivePacket_connless_no_addr(addr, data) == ReceivePacket("Connless", NoPid, NoAddr, <<data>>)


ReceivePacket_connless(addr, data) == ReceivePacket("Connless", NoPid, addr, <<data>>)

\* The loop of ReceivePacket::connected over a clone of the inner iterator:
\* remove_peer(pid) for each Disconnect in it.
RECURSIVE remove_on_disconnect(_, _, _)
remove_on_disconnect(self, pid, chunks) ==
    IF chunks = <<>> THEN [panic |-> FALSE, self |-> self]
    ELSE IF Head(chunks).t = "Disconnect"
    THEN LET r == remove_peer(self, pid)
         IN  IF r.panic THEN r ELSE remove_on_disconnect(r.self, pid, Tail(chunks))
    ELSE remove_on_disconnect(self, pid, Tail(chunks))

\* A wrapper that leaves the removal to the consumption of the iterator.
ReceivePacket_connected_lazy(pid, receive_packet, net) ==
    [panic |-> FALSE, net |-> net,
     rp |-> ReceivePacket("Connected", pid, NoAddr, receive_packet)]

\* ReceivePacket::connected(pid, receive_packet, net)
ReceivePacket_connected(pid, receive_packet, net) ==
    LET r == remove_on_disconnect(net, pid, receive_packet)
    IN  [panic |-> r.panic, net |-> r.self,
         rp |-> ReceivePacket("Connected", pid, NoAddr, receive_packet)]

\* No item (Option::None of next()).
NoItem == [t |-> "None"]

\* A map closure that loses the vital flag: every connected chunk is Vital.
map_chunk_all_vital(pid, chunk) ==
    IF chunk.t = "Connless" THEN Chunk(chunk.data, PeerChunk(pid, "Connless"))
    ELSE IF chunk.t = "Connected" THEN Chunk(chunk.data, PeerChunk(pid, "Vital"))
    ELSE Disconnect_event(pid, chunk.data)

\* The map closure of next() on the Connected variant.
map_chunk(pid, chunk) ==
    IF chunk.t = "Connless" THEN Chunk(chunk.data, PeerChunk(pid, "Connless"))
    ELSE IF chunk.t = "Connected"
    THEN Chunk(chunk.data, PeerChunk(pid, IF chunk.vital THEN "Vital" ELSE "Connected"))
    ELSE Disconnect_event(pid, chunk.data)

\* Iterator::next for ReceivePacket: the item and the iterator after it.
ReceivePacket_next(self) ==
    IF self.type_ = "None" \/ self.inner = <<>>
    THEN [item |-> NoItem, self |-> self]
    ELSE LET x == Head(self.inner)
             rest == [self EXCEPT !.inner = Tail(@)]
         IN  IF self.type_ = "Connect" THEN [item |-> Connect_event(x), self |-> rest]
             ELSE IF self.type_ = "Connected"
             THEN [item |-> map_chunk(self.pid, x), self |-> rest]
             ELSE [item |-> Chunk(x, NonPeerConnless(self.addr)), self |-> rest]

\* collect(): next() until it returns None.
RECURSIVE collect(_)
collect(rp) ==
    LET n == ReceivePacket_next(rp)
    IN  IF n.item = NoItem THEN <<>> ELSE <<n.item>> \o collect(n.self)

\* A size_hint that counts the iterator itself instead of a clone.
size_hint_consuming(self) ==
    [lo |-> Len(collect(self)), hi |-> <<Len(collect(self))>>,
     self |-> [self EXCEPT !.inner = <<>>]]

\* ReceivePacket::size_hint(&self): (len, Some(len)) for len the count of a
\* clone; `self` is the iterator after the call.
size_hint(self) ==
    LET len == Len(collect(self))
    IN  [lo |-> len, hi |-> <<len>>, self |-> self]

\* ------------------------------------------------------------------ Net

\* What a Net operation does: the registry after it, the datagrams handed to
\* the user callback, the PeerId and ReceivePacket it returns (if any) and its
\* result: "Ok", "CallbackErr", "TooLongData", or "Panic" when it unwinds.
Outcome(net, sent, pid, rp, res) ==
    [net |-> net, sent |-> sent, pid |-> pid, rp |-> rp, res |-> res]

\* A shim that does not forward to the user callback.
cc_not_forwarding(addr, send) == <<>>

\* A shim that sends to one fixed address, whatever peer it was made for.
cc_fixed_recipient(addr, send) ==
    [i \in 1..Len(send) |-> [to |-> "Server", data |-> send[i], via |-> "Connection"]]

\* cc(cb, addr) and ConnectionCallback::send: every datagram the Connection
\* sends goes to cb.send(addr, data).  `via` records who handed the datagram
\* to the user callback: the shim of a Connection, or the ConnlessBuilder.
cc(addr, send) ==
    [i \in 1..Len(send) |-> [to |-> addr, data |-> send[i], via |-> "Connection"]]

\* A result that swallows the callback's error.
send_result_swallowing(sent, cbOk) == "Ok"

\* The Result of the sends: the callback's error when it failed one.
send_result(sent, cbOk) == IF sent = <<>> \/ cbOk THEN "Ok" ELSE "CallbackErr"

\* Net::new()
Net_new == Peers_new

\* Net::connect(cb, addr) -> (PeerId, Result)
connect(net, addr, cbOk) ==
    LET n == new_peer(net, addr)
        peer == index(n.self, n.pid)
        r == Connection_connect(peer.conn)
        sent == cc(peer.addr, r.send)
    IN  Outcome(with_conn(n.self, n.pid, r.conn), sent, n.pid,
                ReceivePacket_none, send_result(sent, cbOk))

\* A disconnect that also takes the peer out of the registry.
disconnect_removing(net, pid, reason, cbOk) ==
    IF position(net, pid) = 0
    THEN Outcome(net, <<>>, NoPid, ReceivePacket_none, "Panic")
    ELSE Outcome(remove_peer(net, pid).self, <<>>, NoPid, ReceivePacket_none, "Ok")

\* A disconnect that does nothing for a PeerId that is not live.
disconnect_ignoring_missing(net, pid, reason, cbOk) ==
    IF position(net, pid) = 0
    THEN Outcome(net, <<>>, NoPid, ReceivePacket_none, "Ok")
    ELSE LET r == Connection_disconnect(index(net, pid).conn, reason)
             sent == cc(index(net, pid).addr, r.send)
         IN  Outcome(with_conn(net, pid, r.conn), sent, NoPid,
                     ReceivePacket_none, send_result(sent, cbOk))

\* Net::disconnect(cb, pid, reason) -> Result
disconnect(net, pid, reason, cbOk) ==
    IF ~get_is_some(net, pid)
    THEN Outcome(net, <<>>, NoPid, ReceivePacket_none, "Panic")
    ELSE LET peer == index(net, pid)
             r == Connection_disconnect(peer.conn, reason)
             sent == cc(peer.addr, r.send)
         IN  Outcome(with_conn(net, pid, r.conn), sent, NoPid,
                     ReceivePacket_none, send_result(sent, cbOk))

\* A send_connless that goes through the registry first: nothing is sent to
\* an address that has a live peer.
send_connless_peer_lookup(net, addr, data, cbOk) ==
    IF pid_from_addr(net, addr) # NoPid \/ ~Packet_write_connless(data).ok
    THEN Outcome(net, <<>>, NoPid, ReceivePacket_none, "TooLongData")
    ELSE Outcome(net, <<[to |-> addr, data |-> Packet_write_connless(data).d,
                         via |-> "ConnlessBuilder"]>>,
                 NoPid, ReceivePacket_none, IF cbOk THEN "Ok" ELSE "CallbackErr")

\* ConnlessBuilder::send(cb, addr, Packet::Connless(data)), from Net::send_connless
send_connless(net, addr, data, cbOk) ==
    LET w == Packet_write_connless(data)
        sent == <<[to |-> addr, data |-> w.d, via |-> "ConnlessBuilder"]>>
    IN  IF ~w.ok
        THEN Outcome(net, <<>>, NoPid, ReceivePacket_none, "TooLongData")
        ELSE Outcome(net, sent, NoPid, ReceivePacket_none, send_result(sent, cbOk))

\* A send that gives Connection::send the vital flag of the other chunk type.
send_vital_swapped(net, chunk, cbOk) ==
    IF chunk.addr.k = "NonPeerConnless"
    THEN LET a == chunk.addr.a
             pid == pid_from_addr(net, a)
         IN  IF pid # NoPid
             THEN Outcome(net, cc(a, Connection_send_connless(index(net, pid).conn,
                                                              chunk.data).send),
                          NoPid, ReceivePacket_none, IF cbOk THEN "Ok" ELSE "CallbackErr")
             ELSE send_connless(net, a, chunk.data, cbOk)
    ELSE LET pid == chunk.addr.pid
         IN  IF ~get_is_some(net, pid)
             THEN Outcome(net, <<>>, NoPid, ReceivePacket_none, "Panic")
             ELSE LET peer == index(net, pid)
                      r == IF chunk.addr.type_ = "Connless"
                           THEN Connection_send_connless(peer.conn, chunk.data)
                           ELSE Connection_send(peer.conn, chunk.data,
                                                chunk.addr.type_ = "Connected")
                  IN  Outcome(net, cc(peer.addr, r.send), NoPid,
                              ReceivePacket_none, IF cbOk THEN "Ok" ELSE "CallbackErr")

\* Net::send(cb, chunk) -> Result
send(net, chunk, cbOk) ==
    IF chunk.addr.k = "NonPeerConnless"
    THEN LET a == chunk.addr.a
             pid == pid_from_addr(net, a)
         IN  IF pid # NoPid
             THEN LET r == Connection_send_connless(index(net, pid).conn, chunk.data)
                      sent == cc(a, r.send)
                  IN  Outcome(with_conn(net, pid, r.conn), sent, NoPid,
                              ReceivePacket_none, send_result(sent, cbOk))
             ELSE send_connless(net, a, chunk.data, cbOk)
    ELSE LET pid == chunk.addr.pid
         IN  IF ~get_is_some(net, pid)
             THEN Outcome(net, <<>>, NoPid, ReceivePacket_none, "Panic")
             ELSE LET peer == index(net, pid)
                      r == IF chunk.addr.type_ = "Connless"
                           THEN Connection_send_connless(peer.conn, chunk.data)
                           ELSE Connection_send(peer.conn, chunk.data,
                                                chunk.addr.type_ = "Vital")
                      sent == cc(peer.addr, r.send)
                  IN  Outcome(with_conn(net, pid, r.conn), sent, NoPid,
                              ReceivePacket_none, send_result(sent, cbOk))

\* Net::peer_addr(pid) -> Option<A>
peer_addr(net, pid) == IF get_is_some(net, pid) THEN index(net, pid).addr ELSE NoAddr

\* Net::feed_impl(cb, addr, data, buf) -> (ReceivePacket, Result)
feed_impl(net, addr, data, cbOk) ==
    LET pid == pid_from_addr(net, addr)
    IN  IF pid # NoPid
        THEN LET r == Connection_feed(index(net, pid).conn, data)
                 sent == cc(addr, r.send)
                 c == ReceivePacket_connected(pid, r.chunks, with_conn(net, pid, r.conn))
             IN  Outcome(c.net, sent, NoPid, c.rp,
                         IF c.panic THEN "Panic" ELSE send_result(sent, cbOk))
        ELSE LET packet == Packet_read(data)
             IN  IF packet # NoPacket /\ IsConnless(packet)
                 THEN Outcome(net, <<>>, NoPid, ReceivePacket_connless(addr, packet.d), "Ok")
                 ELSE IF packet # NoPacket /\ IsControlConnect(packet)
                 THEN LET n == new_peer(net, addr)
                          peer == index(n.self, n.pid)
                          r == Connection_feed(peer.conn, data)
                          sent == cc(peer.addr, r.send)
                      IN  Outcome(with_conn(n.self, n.pid, r.conn), sent, NoPid,
                                  ReceivePacket_connect(n.pid),
                                  IF r.chunks # <<>> THEN "Panic"
                                  ELSE send_result(sent, cbOk))
                 ELSE Outcome(net, <<>>, NoPid, ReceivePacket_none, "Ok")

\* ------------------------------------------------------- state machine

\* A call of the public interface: the operation and its arguments.
Call(op, addr, pid, arg) == [op |-> op, addr |-> addr, pid |-> pid, arg |-> arg]

NoCall == Call("new", NoAddr, NoPid, NoBytes)

\* The last call and what it returned.
Ret(call, o) == [call |-> call, pid |-> o.pid, rp |-> o.rp, res |-> o.res]

Online(addr) == [conn |-> [state |-> "Online"], addr |-> addr]

\* The last PeerId, 2^32 - 1.
PeerId_MAX == PeerId(Half - 1, Half - 1)

\* Registries of a Net whose counter has gone once around while the peers
\* allocated last stayed connected: the counter is back on the live
\* PeerId 2^32 - 1, and in the second PeerId(0) is live as well.
AgedNets ==
    {[peers |-> <<Entry(PeerId_MAX, Online("Server"))>>,
      next_peer_id |-> PeerId_MAX],
     [peers |-> <<Entry(PeerId_MAX, Online("Server")), Entry(PeerId(0, 0), Online("Client"))>>,
      next_peer_id |-> PeerId_MAX]}

InitNets == {Net_new} \cup AgedNets

\* The lifecycle scenario: not (or no longer) followed.
LcOff == [stage |-> -1, c |-> NoPid, ev |-> <<>>, reason |-> NoBytes]

LcStart == [LcOff EXCEPT !.stage = 0]

\* The stage the scenario is at after `call` with outcome o: connect(Server),
\* then three feeds of the datagram just emitted (at Client, Server, Client),
\* then disconnect(c, reason), then a feed of its datagram at Client.
LcNext(call, o) ==
    LET ok == o.res = "Ok"
        fed(a) == /\ call.op = "feed" /\ call.addr = a /\ ok
                  /\ Len(out) = 1 /\ call.arg = out[1].data
    IN  IF lc.stage = 0 /\ call.op = "connect" /\ call.addr = "Server" /\ ok
        THEN [lc EXCEPT !.stage = 1, !.c = o.pid]
        ELSE IF lc.stage = 1 /\ fed("Client")
        THEN [lc EXCEPT !.stage = 2, !.ev = collect(o.rp)]
        ELSE IF lc.stage = 2 /\ fed("Server") THEN [lc EXCEPT !.stage = 3]
        ELSE IF lc.stage = 3 /\ fed("Client") THEN [lc EXCEPT !.stage = 4]
        ELSE IF lc.stage = 4 /\ call.op = "disconnect" /\ call.pid = lc.c /\ ok
        THEN [lc EXCEPT !.stage = 5, !.reason = call.arg]
        ELSE IF lc.stage = 5 /\ fed("Client") THEN [lc EXCEPT !.stage = 6]
        ELSE LcOff

Init ==
    /\ peers \in InitNets
    /\ out = <<>>
    /\ ret = Ret(NoCall, Outcome(peers, <<>>, NoPid, ReceivePacket_none, "Ok"))
    /\ it = ReceivePacket_none
    /\ yielded = <<>>
    /\ created = [p \in LivePids(peers) |-> peer_addr(peers, p)]
    /\ allocs = Len(peers.peers)
    /\ dupConnect = FALSE
    /\ lc = IF LiveAddrs(peers) = {} THEN LcStart ELSE LcOff
    /\ cbres = TRUE

\* One call: the registry, the callback's datagrams and the returned values
\* are the operation's outcome; the history variables follow.  cbOk is what
\* the user callback answers to the datagrams it is handed during the call.
Step(call, o, cbOk) ==
    /\ allocs + (Len(o.net.peers) - Len(peers.peers)) <= MaxAllocs
    /\ peers' = o.net
    /\ out' = o.sent
    /\ ret' = Ret(call, o)
    /\ it' = IF o.res = "Panic" THEN ReceivePacket_none ELSE o.rp
    /\ yielded' = <<>>
    /\ created' = [p \in LivePids(o.net) |->
                      IF p \in LivePids(peers) THEN created[p] ELSE call.addr]
    /\ allocs' = IF Len(o.net.peers) > Len(peers.peers) THEN allocs + 1 ELSE allocs
    /\ dupConnect' = (dupConnect \/
                        (call.op = "connect" /\ call.addr \in LiveAddrs(peers)))
    /\ lc' = LcNext(call, o)
    /\ cbres' = (o.sent = <<>> \/ cbOk)

\* The PeerIds a caller may pass: the live ones and one that may be stale.
PidArgs == LivePids(peers) \cup {PeerId(0, 0)}

\* The data a caller may send: the Data and one slice too long for a packet.
TooLong == Bytes("long", MAX_PAYLOAD + 1)

SendData == Data \cup {TooLong}

ChunkAddresses ==
    {NonPeerConnless(a) : a \in Address}
    \cup {PeerChunk(p, t) : p \in PidArgs, t \in ChunkType}

Connect ==
    \E addr \in Address, cbOk \in BOOLEAN :
        Step(Call("connect", addr, NoPid, NoBytes), connect(peers, addr, cbOk), cbOk)

Disconnect ==
    \E pid \in PidArgs, reason \in Reasons, cbOk \in BOOLEAN :
        Step(Call("disconnect", NoAddr, pid, reason), disconnect(peers, pid, reason, cbOk), cbOk)

SendConnless ==
    \E addr \in Address, data \in SendData, cbOk \in BOOLEAN :
        Step(Call("send_connless", addr, NoPid, data), send_connless(peers, addr, data, cbOk), cbOk)

Send ==
    \E ca \in ChunkAddresses, data \in SendData, cbOk \in BOOLEAN :
        LET chunk == [data |-> data, addr |-> ca]
        IN  Step(Call("send", NoAddr, NoPid, chunk), send(peers, chunk, cbOk), cbOk)

Feed ==
    \E addr \in Address, data \in Datagrams, cbOk \in BOOLEAN :
        Step(Call("feed", addr, NoPid, data), feed_impl(peers, addr, data, cbOk), cbOk)

\* The caller takes the next event from the ReceivePacket it holds.
Iterate ==
    LET n == ReceivePacket_next(it)
    IN  /\ n.item # NoItem
        /\ it' = n.self
        /\ yielded' = Append(yielded, n.item)
        /\ UNCHANGED <<peers, out, ret, created, allocs, dupConnect, lc, cbres>>

Next == Connect \/ Disconnect \/ SendConnless \/ Send \/ Feed \/ Iterate

Spec == Init /\ [][Next]_vars

\* The caller keeps calling: some call is made whenever one is possible.
FairSpec == Spec /\ WF_vars(Next)

\* ------------------------------------------------------------ properties

\* The step is a call of the interface (Iterate always adds to `yielded`).
Called == yielded' = <<>>

Entries(self) == {self.peers[i] : i \in 1..Len(self.peers)}

\* No two entries of the map carry the same address.
AddressesDistinct ==
    \A i, j \in 1..Len(peers.peers) :
        i # j => peers.peers[i].val.addr # peers.peers[j].val.addr

\* C1 (as stated): in every state reachable by any sequence of connect,
\* disconnect, send, send_connless and feed calls, no two distinct live PeerIds
\* have the same address.
C1_AddressesDistinctAlways == AddressesDistinct

\* C1 (amended): as long as connect has never been called with an address that
\* had a live peer at the time, no two distinct live PeerIds have the same
\* address; feed never creates a second peer at an address.
C1_AddressesDistinctUnlessDupConnect == ~dupConnect => AddressesDistinct

\* A Connect packet arrived from an address with a live peer and was routed
\* to that peer, with two peers live and no connect on an occupied address.
C1_Witness ==
    /\ ~dupConnect
    /\ Len(peers.peers) = 2
    /\ ret.call.op = "feed"
    /\ ret.call.arg.k = "Connect"
    /\ ret.rp.type_ = "Connected"

\* No two entries of the map carry the same PeerId.
PidsDistinct ==
    \A i, j \in 1..Len(peers.peers) : i # j => peers.peers[i].key # peers.peers[j].key

\* The PeerId the step's call allocated.
Allocated == IF ret'.call.op = "connect" THEN ret'.pid ELSE ret'.rp.pid

\* C2: the PeerId an allocation returns (connect, or feed of a Connect packet
\* from an unknown address) was not live before the call, also across the wrap
\* of next_peer_id and when the counter lands on live ids; the peers live
\* before keep their PeerIds and addresses; two live peers never share a PeerId.
C2_AllocationReturnsVacantPid ==
    /\ []PidsDistinct
    /\ [][(Called /\ allocs' # allocs) =>
            /\ Allocated \notin LivePids(peers)
            /\ Allocated \in LivePids(peers')
            /\ \A i \in 1..Len(peers.peers) :
                /\ peers'.peers[i].key = peers.peers[i].key
                /\ peers'.peers[i].val.addr = peers.peers[i].val.addr]_vars

\* connect on the aged Net: the counter stood on the live PeerId 2^32 - 1,
\* skipped it, wrapped and returned PeerId(0).
C2_Witness ==
    /\ ret.call.op = "connect"
    /\ ret.pid = PeerId(0, 0)
    /\ PeerId_MAX \in LivePids(peers)
    /\ peers.next_peer_id = PeerId(0, 1)

\* C3: right after feed returns a ReceivePacket that contains Disconnect(p, _),
\* peer_addr(p) is None, however much of the ReceivePacket the caller has
\* consumed, and a caller that consumes it all is yielded that Disconnect.
C3_DisconnectRemovesEagerly ==
    (ret.call.op = "feed" /\ ret.res # "Panic") =>
        \A i \in 1..Len(collect(ret.rp)) :
            LET e == collect(ret.rp)[i]
            IN  e.t = "Disconnect" =>
                    /\ peer_addr(peers, e.pid) = NoAddr
                    /\ ReceivePacket_next(it).item = NoItem =>
                            (Len(yielded) >= i /\ yielded[i] = e)

\* The caller has consumed the ReceivePacket and was yielded the Disconnect
\* of a peer that is gone from the registry.
C3_Witness ==
    /\ ret.call.op = "feed"
    /\ Len(yielded) = 1
    /\ yielded[1].t = "Disconnect"
    /\ yielded[1].reason = Bytes("foobar", 6)
    /\ peer_addr(peers, yielded[1].pid) = NoAddr
    /\ Len(peers.peers) >= 1

\* C4: for every live PeerId p, peer_addr(p) is the address given to the call
\* that created p; no operation changes a live peer's address.
C4_AddressIsCreationAddress ==
    /\ DOMAIN created = LivePids(peers)
    /\ \A i \in 1..Len(peers.peers) :
        /\ peers.peers[i].val.addr = created[peers.peers[i].key]
        /\ peer_addr(peers, peers.peers[i].key) = created[peers.peers[i].key]

\* A peer created by an inbound Connect from Client outlives the removal of
\* another peer and still has the address Client.
C4_Witness ==
    /\ ret.call.op = "feed"
    /\ ret.call.addr = "Server"
    /\ collect(ret.rp) # <<>>
    /\ collect(ret.rp)[1].t = "Disconnect"
    /\ \E p \in LivePids(peers) : created[p] = "Client" /\ peer_addr(peers, p) = "Client"

\* C5: the lifecycle on one Net.  connect(Server) returns c and emits one
\* datagram; fed at Client it yields exactly Connect(s) and emits one; that
\* fed at Server yields nothing and emits one; that fed at Client yields
\* nothing and emits nothing; disconnect(c, reason) emits one; that fed at
\* Client yields exactly Disconnect(s, reason) and emits nothing.
C5_Lifecycle ==
    /\ lc.stage = 1 =>
        /\ ret.pid = lc.c /\ lc.c \in LivePids(peers)
        /\ Len(out) = 1 /\ out[1].to = "Server"
    /\ lc.stage = 2 =>
        /\ Len(collect(ret.rp)) = 1
        /\ collect(ret.rp)[1].t = "Connect"
        /\ Len(out) = 1
    /\ lc.stage = 3 => (collect(ret.rp) = <<>> /\ Len(out) = 1)
    /\ lc.stage = 4 => (collect(ret.rp) = <<>> /\ out = <<>>)
    /\ lc.stage = 5 => Len(out) = 1
    /\ lc.stage = 6 =>
        /\ collect(ret.rp) = <<Disconnect_event(lc.ev[1].pid, lc.reason)>>
        /\ out = <<>>

\* The scenario has run to its end, with the reason "foobar".
C5_Witness == lc.stage = 6 /\ lc.reason = Bytes("foobar", 6)

\* The step is a feed from an address that has no live peer.
FedFromUnknown ==
    Called /\ ret'.call.op = "feed" /\ ret'.call.addr \notin LiveAddrs(peers)

\* C6: a Control-Connect datagram from an address with no live peer creates
\* exactly one peer, at that address; the packet goes through the new peer's
\* Connection, whose iterator is empty (no panic); the ReceivePacket yields
\* exactly Connect(new_pid), and peer_addr(new_pid) is the source address.
C6_InboundConnectCreatesPeer ==
    [][(FedFromUnknown /\ ret'.call.arg.k = "Connect") =>
        LET n == Len(peers'.peers)
            new == peers'.peers[n]
        IN  /\ ret'.res # "Panic"
            /\ n = Len(peers.peers) + 1
            /\ \A i \in 1..Len(peers.peers) : peers'.peers[i] = peers.peers[i]
            /\ new.key \notin LivePids(peers)
            /\ new.val.addr = ret'.call.addr
            /\ new.val.conn # Connection_new
            /\ collect(ret'.rp) = <<Connect_event(new.key)>>
            /\ peer_addr(peers', new.key) = ret'.call.addr]_vars

\* An inbound Connect from Client was accepted next to a live peer, and the
\* caller has been yielded its Connect event.
C6_Witness ==
    /\ ret.call.op = "feed"
    /\ ret.call.addr = "Client"
    /\ ret.rp.type_ = "Connect"
    /\ yielded = <<Connect_event(ret.rp.pid)>>
    /\ peer_addr(peers, ret.rp.pid) = "Client"
    /\ Len(peers.peers) = 2

\* The event belongs to peer p.
TaggedWith(e, p) ==
    \/ e.t = "Chunk" /\ e.addr.k = "Peer" /\ e.addr.pid = p
    \/ e.t = "Disconnect" /\ e.pid = p

\* C7: a feed from an address with a live peer p goes to p's Connection only:
\* no peer is created, no other entry changes, and every event is tagged with
\* p; feed yields a NonPeerConnless chunk only when no peer was live at the
\* source address.
C7_FeedDelegatesToLivePeer ==
    [][(Called /\ ret'.call.op = "feed" /\ ret'.res # "Panic") =>
        LET a == ret'.call.addr
            ev == collect(ret'.rp)
        IN  /\ a \in LiveAddrs(peers) =>
                \E p \in LivePids(peers) :
                    /\ peer_addr(peers, p) = a
                    /\ LivePids(peers') \subseteq LivePids(peers)
                    /\ peers'.next_peer_id = peers.next_peer_id
                    /\ {e \in Entries(peers') : e.key # p} = {e \in Entries(peers) : e.key # p}
                    /\ \A i \in 1..Len(ev) : TaggedWith(ev[i], p)
            /\ (\E i \in 1..Len(ev) : ev[i].t = "Chunk" /\ ev[i].addr.k = "NonPeerConnless")
                    => a \notin LiveAddrs(peers)]_vars

\* A connless datagram from the address of a live peer was delivered as that
\* peer's Connless chunk, with a second peer live.
C7_Witness ==
    /\ ret.call.op = "feed"
    /\ ret.call.arg.k = "Connless"
    /\ ret.rp.type_ = "Connected"
    /\ Len(collect(ret.rp)) = 1
    /\ collect(ret.rp)[1].t = "Chunk"
    /\ collect(ret.rp)[1].addr = PeerChunk(ret.rp.pid, "Connless")
    /\ Len(peers.peers) = 2

\* C8: a Packet::Connless(d) datagram from an address with no live peer yields
\* exactly Chunk{d, NonPeerConnless(source)}, returns Ok, hands nothing to the
\* callback and leaves the registry, next_peer_id included, unchanged.
C8_ConnlessFromUnknown ==
    [][(FedFromUnknown /\ ret'.call.arg.k = "Connless") =>
        /\ collect(ret'.rp) = <<Chunk(ret'.call.arg.d, NonPeerConnless(ret'.call.addr))>>
        /\ ret'.res = "Ok"
        /\ out' = <<>>
        /\ peers' = peers]_vars

\* The caller has been yielded the NonPeerConnless chunk of a datagram from
\* Client while a peer is live at Server.
C8_Witness ==
    /\ ret.call.op = "feed"
    /\ yielded = <<Chunk(Bytes("ping", 4), NonPeerConnless("Client"))>>
    /\ LiveAddrs(peers) = {"Server"}

\* C9: a datagram from an address with no live peer that is neither a connless
\* packet nor a Control-Connect packet yields the empty ReceivePacket and Ok,
\* creates no peer, hands nothing to the callback and leaves the registry,
\* next_peer_id included, unchanged.
C9_StrayFromUnknown ==
    [][(FedFromUnknown /\ ret'.call.arg.k \notin {"Connless", "Connect"}) =>
        /\ ret'.rp.type_ = "None"
        /\ collect(ret'.rp) = <<>>
        /\ ret'.res = "Ok"
        /\ out' = <<>>
        /\ peers' = peers]_vars

\* An Accept packet from Client, where no peer is live, was dropped while a
\* peer is live at Server.
C9_Witness ==
    /\ ret.call.op = "feed"
    /\ ret.call.addr = "Client"
    /\ ret.call.arg.k = "Accept"
    /\ ret.rp.type_ = "None"
    /\ LiveAddrs(peers) = {"Server"}

\* The PeerIds the registry hands out within the bounds.
ModelPids == {PeerId(0, 0), PeerId(0, 1), PeerId(0, 2), PeerId_MAX}

\* C10: after disconnect(p) has returned Ok, and for as long as no datagram
\* arrives from p's address, p is eventually removed from the registry.
C10_LocalDisconnectLeadsToRemoval ==
    \A p \in ModelPids :
        (ret.call.op = "disconnect" /\ ret.call.pid = p /\ ret.res = "Ok")
            ~> (\/ p \notin LivePids(peers)
                \/ ret.call.op = "feed" /\ ret.call.addr = peer_addr(peers, p))

\* The keys and the addresses of the map, in the map's order.
KeysAndAddrs(self) ==
    [i \in 1..Len(self.peers) |-> <<self.peers[i].key, self.peers[i].val.addr>>]

\* The step is a call of disconnect, send or send_connless.
OutboundCall == Called /\ ret'.call.op \in {"disconnect", "send", "send_connless"}

\* The live peers a local disconnect has closed.
LocallyClosed ==
    {e.key : e \in {x \in Entries(peers) : x.val.conn.state = "Disconnected"}}

\* C11: disconnect, send and send_connless add no peer, remove no peer, change
\* no peer's address and leave next_peer_id alone, whatever they return; so the
\* peer of a disconnect stays live after it, and as long as its entry stays no
\* later allocation returns its PeerId.
C11_OutboundKeepsRegistry ==
    [][/\ OutboundCall =>
            /\ KeysAndAddrs(peers') = KeysAndAddrs(peers)
            /\ peers'.next_peer_id = peers.next_peer_id
       /\ (OutboundCall /\ ret'.call.op = "disconnect" /\ ret'.res # "Panic") =>
            ret'.call.pid \in LivePids(peers')
       /\ (Called /\ allocs' # allocs) =>
            /\ Allocated \notin LocallyClosed
            /\ LocallyClosed \subseteq LivePids(peers')
            /\ \A p \in LocallyClosed : peer_addr(peers', p) = peer_addr(peers, p)
      ]_vars

\* A peer that disconnect closed is still live, at its address, after a later
\* connect gave out another PeerId.
C11_Witness ==
    /\ ret.call.op = "connect"
    /\ \E p \in LocallyClosed : p # ret.pid /\ ret.pid \in LivePids(peers)

\* The one datagram the callback is handed when send takes the path `via` to
\* the address `to` with the packet `data`.
Handed(to, data, via) == <<[to |-> to, data |-> data, via |-> via]>>

\* The chunk the last call sent fits into a packet.
SentFits == ret.call.arg.data.len <= MAX_PAYLOAD

\* C12: send dispatches on chunk.addr, and takes exactly one path.
\* NonPeerConnless(a) with a peer live at a hands one connless datagram for a
\* through that peer's Connection, and with no peer at a one bare connless
\* packet through the ConnlessBuilder (or TooLongData and nothing);
\* Peer(pid, Connless) hands a connless datagram, Peer(pid, Connected) a chunk
\* with vital = false and Peer(pid, Vital) a chunk with vital = true, each
\* through the Connection of pid and to the address of pid.  (send leaves the
\* registry as it was, so the peers of the state are those of the call.)
C12_SendDispatch ==
    (ret.call.op = "send" /\ ret.res # "Panic") =>
        LET chunk == ret.call.arg
            ca == chunk.addr
            connless == Datagram("Connless", chunk.data, <<>>)
            chunks(vital) == Datagram("Chunks", NoBytes, <<InChunk(chunk.data, vital)>>)
        IN  /\ Len(out) <= 1
            /\ ca.k = "NonPeerConnless" /\ ca.a \in LiveAddrs(peers) =>
                 /\ \A i \in 1..Len(out) : out[i].via = "Connection" /\ out[i].to = ca.a
                 /\ SentFits => out = Handed(ca.a, connless, "Connection")
            /\ ca.k = "NonPeerConnless" /\ ca.a \notin LiveAddrs(peers) =>
                 IF SentFits THEN out = Handed(ca.a, connless, "ConnlessBuilder")
                 ELSE out = <<>> /\ ret.res = "TooLongData"
            /\ ca.k = "Peer" =>
                 /\ ca.pid \in LivePids(peers)
                 /\ \A i \in 1..Len(out) :
                        out[i].via = "Connection" /\ out[i].to = peer_addr(peers, ca.pid)
                 /\ SentFits =>
                      out = Handed(peer_addr(peers, ca.pid),
                                   CASE ca.type_ = "Connless" -> connless
                                     [] ca.type_ = "Connected" -> chunks(FALSE)
                                     [] ca.type_ = "Vital" -> chunks(TRUE),
                                   "Connection")

\* A connless chunk for the address of a live peer went through the peer's
\* Connection while another peer was live, and so did a vital chunk.
C12_Witness ==
    /\ ret.call.op = "send" /\ Len(out) = 1 /\ out[1].via = "Connection"
    /\ Cardinality(LivePids(peers)) = 2
    /\ \/ ret.call.arg.addr.k = "NonPeerConnless"
       \/ ret.call.arg.addr.k = "Peer" /\ ret.call.arg.addr.type_ = "Vital"

\* C13: send_connless(addr, data) does not look at the registry.  A payload
\* that fits is handed to the callback as exactly one connless datagram for
\* addr by the ConnlessBuilder, whether or not a peer is live at addr, and the
\* result is Ok, or the callback's error when the callback failed; a payload
\* over the codec's maximum gives TooLongData and no datagram.
C13_SendConnlessBypassesRegistry ==
    ret.call.op = "send_connless" =>
        IF ret.call.arg.len <= MAX_PAYLOAD
        THEN /\ out = <<[to |-> ret.call.addr,
                         data |-> Datagram("Connless", ret.call.arg, <<>>),
                         via |-> "ConnlessBuilder"]>>
             /\ ret.res = IF cbres THEN "Ok" ELSE "CallbackErr"
        ELSE out = <<>> /\ ret.res = "TooLongData"

\* send_connless to the address of a live peer handed its datagram to a
\* callback that failed.
C13_Witness ==
    /\ ret.call.op = "send_connless" /\ ret.call.addr \in LiveAddrs(peers)
    /\ Len(out) = 1 /\ ret.res = "CallbackErr"

\* The last call returned the result of its sends: Ok, or the callback's error.
ReturnsSendResult == ret'.res = IF cbres' THEN "Ok" ELSE "CallbackErr"

\* C14: connect(addr) returns a PeerId that was not live, is live after the
\* call and has peer_addr(pid) = addr, together with the result of the send of
\* the initial datagram, also when that send fails.  feed returns one of the
\* four ReceivePackets together with the result of its sends; a Connect packet
\* from an address without peer creates the peer at that address and yields
\* Connect(pid) exactly once, also when the reply fails to send.
C14_PeerIdDespiteSendFailure ==
    [][/\ (Called /\ ret'.call.op = "connect") =>
            /\ ret'.pid \notin LivePids(peers)
            /\ ret'.pid \in LivePids(peers')
            /\ peer_addr(peers', ret'.pid) = ret'.call.addr
            /\ Len(out') = 1
            /\ ReturnsSendResult
       /\ (Called /\ ret'.call.op = "feed") =>
            /\ ret'.rp.type_ \in {"None", "Connect", "Connected", "Connless"}
            /\ it' = ret'.rp
            /\ ReturnsSendResult
       /\ (Called /\ ret'.call.op = "feed" /\ FedFromUnknown
              /\ ret'.call.arg.k = "Connect") =>
            /\ ret'.rp.type_ = "Connect"
            /\ ret'.rp.pid \notin LivePids(peers)
            /\ peer_addr(peers', ret'.rp.pid) = ret'.call.addr
            /\ collect(ret'.rp) = <<Connect_event(ret'.rp.pid)>>
            /\ Len(out') = 1
      ]_vars

\* The reply to an inbound Connect failed to send; the peer is live and the
\* caller has taken Connect(pid) from the ReceivePacket.
C14_Witness ==
    /\ ret.call.op = "feed" /\ ret.rp.type_ = "Connect" /\ ret.res = "CallbackErr"
    /\ peer_addr(peers, ret.rp.pid) = ret.call.addr
    /\ yielded = <<Connect_event(ret.rp.pid)>>

\* The step is a call that names a PeerId which is not live: disconnect(pid, _)
\* or send of a chunk addressed Peer(pid, _).
CallOnDeadPid ==
    /\ Called
    /\ \/ ret'.call.op = "disconnect" /\ ret'.call.pid \notin LivePids(peers)
       \/ /\ ret'.call.op = "send" /\ ret'.call.arg.addr.k = "Peer"
          /\ ret'.call.arg.addr.pid \notin LivePids(peers)

\* C15: disconnect(pid, _) and send of a chunk addressed Peer(pid, _) with a
\* pid that is not live (never allocated, or removed by an observed
\* Disconnect) panic with "invalid pid": no datagram is handed to the callback
\* and the registry is as before.  With a live pid they do not panic.
C15_InvalidPidPanics ==
    [][/\ CallOnDeadPid => ret'.res = "Panic" /\ out' = <<>> /\ peers' = peers
       /\ (Called /\ ret'.call.op \in {"disconnect", "send"} /\ ~CallOnDeadPid) =>
            ret'.res # "Panic"
      ]_vars

\* disconnect(PeerId 0) panicked after PeerId 0 was allocated (the counter
\* stands behind it) and its peer was removed by a Disconnect that feed saw.
C15_Witness ==
    /\ ret.res = "Panic" /\ ret.call.op = "disconnect"
    /\ ret.call.pid = PeerId(0, 0) /\ PeerId(0, 0) \notin LivePids(peers)
    /\ peers.next_peer_id = PeerId(0, 1)

\* ------------------------------------- the probe loop of new_peer, by step

\* Peers::new_peer taken one pass of its `loop` at a time, so that a call that
\* does not return is a behaviour.  The loop only stops at a vacant PeerId,
\* and all 2^32 PeerIds cannot be made live here; the PeerId space of this
\* specification is therefore the ProbeIds PeerIds 0 .. ProbeIds - 1, with the
\* counter wrapping from the last one to 0 as the u32 does from 2^32 - 1.
ProbeIds == 4

ProbePids == {PeerId(0, k) : k \in 0..(ProbeIds - 1)}

\* PeerId::get_and_increment in the PeerId space of the probe specification.
probe_get_and_increment(id) ==
    [old |-> id, self |-> PeerId(0, (id.lo + 1) % ProbeIds)]

\* new_peer(addr) is running / has returned peer_id.
ProbeRunning(addr) ==
    [call |-> Call("new_peer", addr, NoPid, NoBytes), pid |-> NoPid,
     rp |-> ReceivePacket_none, res |-> "Running"]

ProbeReturned(addr, peer_id) == [ProbeRunning(addr) EXCEPT !.pid = peer_id, !.res = "Ok"]

ProbeInit == Init /\ peers = Peers_new

\* new_peer(addr) is called (by connect, or by feed of a Connect packet).
ProbeCall ==
    /\ ret.res # "Running"
    /\ \E addr \in Address : ret' = ProbeRunning(addr)
    /\ UNCHANGED <<peers, out, it, yielded, created, allocs, dupConnect, lc, cbres>>

\* One pass of the loop: take the counter's PeerId and advance the counter;
\* a vacant entry is filled and the call returns, otherwise the loop goes on.
ProbeLoop ==
    /\ ret.res = "Running"
    /\ LET g == probe_get_and_increment(peers.next_peer_id)
           self1 == [peers EXCEPT !.next_peer_id = g.self]
       IN  IF ~get_is_some(self1, g.old)
           THEN /\ peers' = [self1 EXCEPT !.peers =
                               Append(@, Entry(g.old, Peer_new(ret.call.addr)))]
                /\ ret' = ProbeReturned(ret.call.addr, g.old)
           ELSE /\ peers' = self1
                /\ ret' = ret
    /\ UNCHANGED <<out, it, yielded, created, allocs, dupConnect, lc, cbres>>

\* remove_peer(pid) of a live peer, between allocations.
ProbeRemove ==
    /\ ret.res # "Running"
    /\ \E pid \in LivePids(peers) : peers' = remove_peer(peers, pid).self
    /\ UNCHANGED <<out, ret, it, yielded, created, allocs, dupConnect, lc, cbres>>

ProbeNext == ProbeCall \/ ProbeLoop \/ ProbeRemove

ProbeSpec == ProbeInit /\ [][ProbeNext]_vars

\* A running loop keeps running.
ProbeFairSpec == ProbeSpec /\ WF_vars(ProbeLoop)

\* Every PeerId has a live peer.
ProbeFull == LivePids(peers) = ProbePids

\* C16: an allocation that finds every PeerId occupied ends in a panic, and an
\* allocation that finds a vacant PeerId returns.
C16_ExhaustedAllocationPanics ==
    /\ (ret.res = "Running" /\ ProbeFull) ~> (ret.res = "Panic")
    /\ (ret.res = "Running" /\ ~ProbeFull) ~> (ret.res = "Ok")

\* An allocation that finds a vacant PeerId returns it.
ProbeTerminatesWhenVacant ==
    (ret.res = "Running" /\ ~ProbeFull) ~> (ret.res = "Ok" /\ ret.pid \in LivePids(peers))

\* An allocation that finds every PeerId occupied never ends: it neither
\* returns nor panics, and the registry keeps its peers.
ProbeRunsForeverWhenFull ==
    [][(ret.res = "Running" /\ ProbeFull) => (ret'.res = "Running" /\ ProbeFull')]_vars

\* The number of events of the ReceivePacket the last call returned: none for
\* None, one for Connect and for Connless, one per chunk of the Connection
\* for Connected.
TotalEvents ==
    CASE ret.rp.type_ = "None" -> 0
      [] ret.rp.type_ \in {"Connect", "Connless"} -> 1
      [] ret.rp.type_ = "Connected" -> Len(ret.rp.inner)

\* C17: whatever the variant of the ReceivePacket and however many events the
\* caller has taken, size_hint returns (n, Some(n)) for n the number of events
\* still to come (the events of the packet less those taken; none exactly when
\* next() returns None), and leaves the iterator where it was.
C17_SizeHintExact ==
    ret.res # "Panic" =>
        LET h == size_hint(it)
        IN  /\ h.lo = TotalEvents - Len(yielded)
            /\ h.hi = <<h.lo>>
            /\ h.self = it
            /\ (h.lo = 0) <=> (ReceivePacket_next(it).item = NoItem)

\* The caller has taken the first of the two events of a Connected packet;
\* size_hint is (1, Some(1)).
C17_Witness ==
    /\ ret.rp.type_ = "Connected" /\ Len(yielded) = 1
    /\ size_hint(it).lo = 1 /\ size_hint(ret.rp).hi = <<2>>

\* The outward event for the Connection's chunk c received for peer pid.
Outward(pid, c) ==
    CASE c.t = "Connless" -> Chunk(c.data, PeerChunk(pid, "Connless"))
      [] c.t = "Connected" /\ ~c.vital -> Chunk(c.data, PeerChunk(pid, "Connected"))
      [] c.t = "Connected" /\ c.vital -> Chunk(c.data, PeerChunk(pid, "Vital"))
      [] c.t = "Disconnect" -> Disconnect_event(pid, c.data)

\* C18: the events of a feed that went to the Connection of peer pid are the
\* Connection's chunks mapped one by one, in the Connection's order, with the
\* same data: a full iteration yields exactly that sequence, and what the
\* caller has taken so far is its beginning.
C18_EventsMapInnerInOrder ==
    (ret.call.op = "feed" /\ ret.rp.type_ = "Connected") =>
        LET inner == ret.rp.inner
            mapped == [i \in 1..Len(inner) |-> Outward(ret.rp.pid, inner[i])]
        IN  /\ collect(ret.rp) = mapped
            /\ yielded \o collect(it) = mapped
            /\ Len(yielded) <= Len(mapped)
            /\ \A i \in 1..Len(yielded) : yielded[i] = mapped[i]

\* The caller has taken both events of a packet with a non-vital chunk
\* followed by a vital chunk of other data.
C18_Witness ==
    /\ ret.call.op = "feed" /\ ret.rp.type_ = "Connected" /\ Len(yielded) = 2
    /\ yielded[1] = Chunk(Bytes("ping", 4), PeerChunk(ret.rp.pid, "Connected"))
    /\ yielded[2] = Chunk(Bytes("pong", 4), PeerChunk(ret.rp.pid, "Vital"))

\* The peer the last call operated on: the one connect created, the one named
\* by disconnect or by a Peer chunk, the one found at the address of a
\* NonPeerConnless chunk, and the one a feed went to or created.
OperatedPeer ==
    CASE ret.call.op = "connect" -> ret.pid
      [] ret.call.op = "disconnect" -> ret.call.pid
      [] ret.call.op = "send" ->
            IF ret.call.arg.addr.k = "Peer" THEN ret.call.arg.addr.pid
            ELSE pid_from_addr(peers, ret.call.arg.addr.a)
      [] ret.call.op = "feed" -> ret.rp.pid
      [] OTHER -> NoPid

\* C19: every datagram a Connection emitted during the last call was handed
\* to the callback with the address of the peer p the call operated on (for a
\* feed: the address the datagram came from, where p was found or created);
\* and unless connect was called on an occupied address, that recipient is the
\* address of no other live peer.
C19_RecipientIsPeerAddress ==
    \A i \in 1..Len(out) :
        out[i].via = "Connection" =>
            LET p == OperatedPeer
            IN  /\ p # NoPid
                /\ p \in LivePids(peers) => out[i].to = peer_addr(peers, p)
                /\ ret.call.op \in {"connect", "feed"} => out[i].to = ret.call.addr
                /\ p \in LivePids(peers) \/ ret.call.op = "feed"
                /\ ~dupConnect =>
                      \A q \in LivePids(peers) \ {p} : peer_addr(peers, q) # out[i].to

\* disconnect of the peer at Client handed its datagram to Client while
\* another peer was live at Server.
C19_Witness ==
    /\ ret.call.op = "disconnect" /\ Len(out) = 1 /\ out[1].to = "Client"
    /\ peer_addr(peers, ret.call.pid) = "Client"
    /\ "Server" \in LiveAddrs(peers)

\* ---------------------- feed over any Connection the contract allows

\* Connection::feed returns "a cloneable iterator of inner ReceiveChunk
\* variants": the contract says neither how many chunks nor how many
\* Disconnects it holds.  Here feed on a live peer gets any sequence of up to
\* MaxInner chunks from the Connection.
MaxInner == 2

InnerChunks ==
    {ReceiveChunk("Connless", d, FALSE) : d \in Data}
    \cup {ReceiveChunk("Connected", d, v) : d \in Data, v \in BOOLEAN}
    \cup {ReceiveChunk("Disconnect", r, FALSE) : r \in Reasons}

InnerSeqs == UNION {[1..n -> InnerChunks] : n \in 0..MaxInner}

ContractInit == Init /\ peers \in AgedNets

\* Net::feed_impl for a datagram from the address of a live peer: the
\* Connection's iterator is wrapped by ReceivePacket::connected, which removes
\* the peer for each Disconnect it finds in a clone.
FeedContract ==
    \E addr \in LiveAddrs(peers), inner \in InnerSeqs :
        LET pid == pid_from_addr(peers, addr)
            c == ReceivePacket_connected(pid, inner, peers)
        IN  /\ peers' = c.net
            /\ ret' = [call |-> Call("feed", addr, NoPid, NoBytes), pid |-> NoPid,
                       rp |-> c.rp, res |-> IF c.panic THEN "Panic" ELSE "Ok"]
            /\ it' = IF c.panic THEN ReceivePacket_none ELSE c.rp
            /\ yielded' = <<>>
            /\ UNCHANGED <<out, created, allocs, dupConnect, lc, cbres>>

ContractNext == FeedContract \/ Iterate

ContractSpec == ContractInit /\ [][ContractNext]_vars

\* The number of Disconnects among the chunks.
RECURSIVE Disconnects(_)
Disconnects(chunks) ==
    IF chunks = <<>> THEN 0
    ELSE (IF Head(chunks).t = "Disconnect" THEN 1 ELSE 0) + Disconnects(Tail(chunks))

\* C20: whatever iterator the Connection returns from one feed call, the
\* eager removal calls remove_peer(pid) at most once, so that feed on a live
\* peer does not panic with "invalid pid", also when the iterator holds more
\* than one Disconnect.
C20_FeedRemovesOnce ==
    ret.call.op = "feed" => ret.res # "Panic"

\* feed panics exactly when the Connection's iterator holds a second
\* Disconnect: the first has removed the peer, the second finds no entry.
FeedPanicsOnSecondDisconnect ==
    (ret.call.op = "feed" /\ ret.rp.type_ = "Connected") =>
        (ret.res = "Panic" <=> Disconnects(ret.rp.inner) >= 2)

====
